---- MODULE Spec2Model ----
(***************************************************************************)
(* Mutation journal and restore engine of SCAutolib (src/src/env.py).      *)
(*                                                                         *)
(* The host is a map from paths to file-system entries, a set of OS        *)
(* accounts and a backup root.  The journal is the "restore" list of the   *)
(* YAML configuration document.  Provisioning steps (create_sssd_config,   *)
(* create_virt_card_service, create_softhsm2_config, setup_virt_card_),    *)
(* add_restore and cleanup_ run one at a time (the program is single       *)
(* threaded); pc is the position inside the running call.                  *)
(***************************************************************************)
EXTENDS Integers, Sequences, FiniteSets, TLC

VARIABLES fs, bk, nbk, users, homes, conf, pc, cur, args, items, idx,
          last, hist, journal0, appended, replayed

vars == <<fs, bk, nbk, users, homes, conf, pc, cur, args, items, idx,
          last, hist, journal0, appended, replayed>>

(***************************************************************************)
(* fs        path -> entry of the host file system                         *)
(* bk, nbk   the backup root: path -> artifact, and how many were made     *)
(* users, homes   the OS accounts and the home directories that exist      *)
(* conf      the configuration document; conf.restore is the journal       *)
(* pc        "idle", or the statement the running call is at               *)
(* cur       the running call: its target, what it found and what it did   *)
(* args      the arguments of the add_restore call under way               *)
(* items, idx   the list cleanup_ iterates and its position in it          *)
(* last      how the call ended (read while pc = "return")                 *)
(* hist, journal0, appended, replayed   history, read by the properties    *)
(*           only: per target the content before the first and the last    *)
(*           recorded rewrite; the restore list at start; the arguments of *)
(*           the successful add_restore calls; whether a cleanup_ pass     *)
(*           already ran over the present journal                          *)
(* File modes (chmod 0o600), parent directories and the external setup     *)
(* scripts are left out: no statement of the journal reads them.           *)
(***************************************************************************)

(***************************************************************************)
(* Bounds of the model.                                                    *)
(***************************************************************************)
MaxJournal == 2
MaxBackups == 2

(***************************************************************************)
(* Values.                                                                 *)
(***************************************************************************)
None == "<None>"
NoKey == "<no key>"

Absent == [kind |-> "none", data |-> ""]
File(d) == [kind |-> "file", data |-> d]
Dir(d) == [kind |-> "dir", data |-> d]

SssdConf == "/etc/sssd/sssd.conf"
ServiceFile == "/etc/systemd/system/virt_cacard_alice.service"
SoftHsmConf == "/opt/card/conf/softhsm2.conf"
TokensDir == "/opt/card/tokens"
Paths == {SssdConf, ServiceFile, SoftHsmConf, TokensDir}

Alice == "alice"

BackupRoot == "/var/backup/"
DirBackup == "/var/backup/tokens"
BackupPath(n) == BackupRoot \o ToString(n)
BackupPaths == {BackupPath(n) : n \in 1..MaxBackups} \cup {DirBackup}

SssdDefault == "sssd default sections"
SssdMatchRule == "sssd sections + certmap/shadowutils/alice"
ServiceUnit == "virt_cacard unit for alice"
SoftHsmText == "directories.tokendir = /opt/card/tokens/"

StepOps == {"create_sssd_config", "create_virt_card_service"}

Target(op) ==
    IF op = "create_sssd_config" THEN SssdConf ELSE ServiceFile

NewContent(op) ==
    IF op = "create_sssd_config" THEN File(SssdDefault) ELSE File(ServiceUnit)

exists(f, path) == f[path].kind # "none"

(***************************************************************************)
(* The configuration document (the file named by CONF) and add_restore.    *)
(* state says what open/yaml.load make of the file; keys is the order of   *)
(* the top-level keys in the file, ca_dir stands for the other settings.   *)
(***************************************************************************)
\* state: "ok"; "missing" (no file); "malformed" (yaml.load raises);
\* "empty" (yaml.load returns None); "norestore" (no restore key);
\* "scalar" (restore is no list)
Doc(st, ks, cd, rs) == [state |-> st, keys |-> ks, ca_dir |-> cd, restore |-> rs]

KeyOrder == <<"ca_dir", "restore">>

InSeq(x, s) == \E i \in 1..Len(s) : s[i] = x

YamlDumpRestoreOnly(data) ==
    [data EXCEPT !.keys = <<"restore">>, !.ca_dir = ""]

\* yaml.dump (default sort_keys=True) writes the mapping with its keys sorted
YamlDump(data) ==
    [data EXCEPT !.keys = SelectSeq(KeyOrder, LAMBDA k : InSeq(k, data.keys))]

\* the exception add_restore raises on this document, "" when there is none
AddRestoreError(doc) ==
    CASE doc.state = "missing" -> "FileNotFoundError"
      [] doc.state = "malformed" -> "YAMLError"
      [] doc.state = "empty" -> "TypeError"
      [] doc.state = "norestore" -> "KeyError"
      [] doc.state = "scalar" -> "AttributeError"
      [] OTHER -> ""

KnownTypes == {"user", "file", "dir"}

\* the dict of line 500; add_restore never writes a "username" key
RestoreItem(type_, src, backup) ==
    [type |-> type_, src |-> src, backup_dir |-> backup, username |-> NoKey]

ListPrepend(lst, item) == <<item>> \o lst

ListAppend(lst, item) == Append(lst, item)

AddRestoreDocDropsUnknown(doc, type_, src, backup) ==
    IF type_ \in KnownTypes
    THEN YamlDump([doc EXCEPT !.restore =
                       ListAppend(@, RestoreItem(type_, src, backup))])
    ELSE YamlDump(doc)

\* add_restore on a readable document: load, append, dump
AddRestoreDoc(doc, type_, src, backup) ==
    YamlDump([doc EXCEPT !.restore =
                  ListAppend(@, RestoreItem(type_, src, backup))])

AddRestoreWarns(type_) == type_ \notin KnownTypes

(***************************************************************************)
(* cleanup_: the reversal of one item.                                     *)
(***************************************************************************)
Truthy(v) == v # None /\ v # NoKey /\ v # ""

BackupOf(item) == IF item.backup_dir # NoKey THEN item.backup_dir ELSE None

ArtifactKind(b, bd) == IF bd \in DOMAIN b THEN b[bd].kind ELSE "none"

RmTreeSkipped(f, src) == f

\* shutil.rmtree(src, ignore_errors=True): a tree goes, anything else stays
RmTree(f, src) ==
    IF f[src].kind = "dir" THEN [f EXCEPT ![src] = Absent] ELSE f

CopyFileWrongWay(f, b, bd, src) == f

\* shutil.copyfile(backup_dir, src)
CopyFile(f, b, bd, src) == [f EXCEPT ![src] = File(b[bd].data)]

\* os.remove(src)
Remove(f, src) == [f EXCEPT ![src] = Absent]

\* shutil.copytree(backup_dir, src)
CopyTree(f, b, bd, src) == [f EXCEPT ![src] = Dir(b[bd].data)]

\* the exception the reversal of item raises, "" when there is none
ItemError(item, f, b, us) ==
    LET bd == BackupOf(item) IN
    CASE item.type = NoKey -> "KeyError"
      [] item.type # NoKey /\ item.type # "user" /\ item.src = NoKey -> "KeyError"
      [] item.type = "user" /\ item.username = NoKey -> "KeyError"
      [] item.type = "file" /\ item.src # NoKey /\ Truthy(bd) ->
            IF ArtifactKind(b, bd) = "none" THEN "FileNotFoundError: backup"
            ELSE IF ArtifactKind(b, bd) = "dir" \/ f[item.src].kind = "dir"
                 THEN "IsADirectoryError"
            ELSE ""
      [] item.type = "file" /\ item.src # NoKey /\ ~Truthy(bd) ->
            IF f[item.src].kind = "none" THEN "FileNotFoundError: target"
            ELSE IF f[item.src].kind = "dir" THEN "IsADirectoryError"
            ELSE ""
      [] item.type = "dir" /\ item.src # NoKey /\ Truthy(bd) ->
            IF ArtifactKind(b, bd) = "none" THEN "FileNotFoundError: backup"
            ELSE IF ArtifactKind(b, bd) = "file" THEN "NotADirectoryError"
            ELSE IF RmTree(f, item.src)[item.src].kind # "none"
                 THEN "FileExistsError"
            ELSE ""
      [] item.type = "user" /\ item.username # NoKey ->
            IF item.username \in us THEN "" ELSE "CalledProcessError"
      [] OTHER -> ""

\* the file system after the reversal of item (rmtree acts even when the
\* copytree after it raises)
ItemFs(item, f, b, us) ==
    LET bd == BackupOf(item)
        err == ItemError(item, f, b, us) IN
    CASE item.type = "file" /\ err = "" ->
            IF Truthy(bd) THEN CopyFile(f, b, bd, item.src)
            ELSE Remove(f, item.src)
      [] item.type = "dir" /\ item.src # NoKey ->
            IF Truthy(bd) /\ err = ""
            THEN CopyTree(RmTree(f, item.src), b, bd, item.src)
            ELSE RmTree(f, item.src)
      [] OTHER -> f

ItemBkMoved(item, f, b, us) ==
    IF item.type = "file" /\ Truthy(BackupOf(item))
       /\ ItemError(item, f, b, us) = ""
    THEN [b EXCEPT ![BackupOf(item)] = Absent]
    ELSE b

\* the backup root after the reversal of item: copyfile and copytree read
\* their source and leave it in place, nothing else names a backup
ItemBk(item, f, b, us) == b

\* userdel <username> -r
ItemUsers(item, f, b, us) ==
    IF item.type = "user" /\ ItemError(item, f, b, us) = ""
    THEN us \ {item.username} ELSE us

ItemWarns(item) == item.type # NoKey /\ item.type \notin KnownTypes

(***************************************************************************)
(* State of the running call.                                              *)
(***************************************************************************)
NoCall ==
    [op |-> "none", target |-> "", existed |-> FALSE, before |-> Absent,
     backup |-> None, backedUp |-> FALSE, recorded |-> FALSE,
     written |-> FALSE, appendFailed |-> FALSE, replay |-> FALSE]

Call(op, target, f) ==
    [NoCall EXCEPT !.op = op, !.target = target,
                   !.existed = IF target \in Paths THEN exists(f, target) ELSE FALSE,
                   !.before = IF target \in Paths THEN f[target] ELSE Absent]

Outcome(op, outcome, err, attempted, total, warned) ==
    [op |-> op, outcome |-> outcome, err |-> err, attempted |-> attempted,
     total |-> total, warned |-> warned]

NoArgs == [type_ |-> None, src |-> None, backup |-> None]

NoOutcome == Outcome("none", "", "", 0, 0, FALSE)

NoHist == [n |-> 0, orig |-> Absent, pre |-> Absent, created |-> FALSE]

StepTargets == {Target(op) : op \in StepOps}

FlowWriteFirst(c, stage) ==
    CASE stage = "begin" -> "write"
      [] stage = "write" -> IF c.existed THEN "backup" ELSE "return"
      [] stage = "backup" -> "add_restore"
      [] OTHER -> "return"

\* the order of the statements of create_sssd_config and
\* create_virt_card_service: if exists(path): backup_, add_restore; then write
Flow(c, stage) ==
    CASE stage = "begin" -> IF c.existed THEN "backup" ELSE "write"
      [] stage = "backup" -> "add_restore"
      [] stage = "add_restore" -> IF c.op \in StepOps THEN "write" ELSE "return"
      [] OTHER -> "return"

OnErrorGoOn(c) == IF c.op \in StepOps THEN "write" ELSE "return"

\* add_restore's exception is caught nowhere: it ends the calling step
OnError(c) == "return"

(***************************************************************************)
(* Initial states.                                                         *)
(***************************************************************************)
SiteSssd == "site sssd.conf"
SiteSssdMatchRule == "site sssd.conf + certmap/shadowutils/alice"
TokenTree == "token tree"
SavedTokenTree == "saved token tree"

\* an item written by hand in the shape cleanup_ reads for a user
HandWrittenUser ==
    [type |-> "user", src |-> NoKey, backup_dir |-> NoKey, username |-> Alice]

InitJournals == {<< >>, <<HandWrittenUser>>}

InitDocs ==
    {Doc("ok", <<"restore", "ca_dir">>, "/etc/SCAutolib/ca", j) : j \in InitJournals}
    \cup {Doc(st, << >>, "", << >>) : st \in {"missing", "malformed", "empty"}}
    \cup {Doc(st, <<"ca_dir">>, "/etc/SCAutolib/ca", << >>) : st \in {"norestore"}}
    \cup {Doc(st, <<"restore", "ca_dir">>, "/etc/SCAutolib/ca", << >>) : st \in {"scalar"}}

Init ==
    /\ \E s \in {Absent, File(SiteSssd)}, t \in {Absent, Dir(TokenTree)} :
          fs = [p \in Paths |->
                  CASE p = SssdConf -> s
                    [] p = TokensDir -> t
                    [] OTHER -> Absent]
    /\ bk = [b \in BackupPaths |->
               IF b = DirBackup THEN Dir(SavedTokenTree) ELSE Absent]
    /\ nbk = 0
    /\ users = {}
    /\ homes = users
    /\ conf \in InitDocs
    /\ pc = "idle"
    /\ cur = NoCall
    /\ args = NoArgs
    /\ items = << >>
    /\ idx = 0
    /\ last = NoOutcome
    /\ hist = [t \in StepTargets |-> NoHist]
    /\ journal0 = conf.restore
    /\ appended = << >>
    /\ replayed = FALSE

(***************************************************************************)
(* Provisioning steps with a backup: create_sssd_config and                *)
(* create_virt_card_service.                                               *)
(***************************************************************************)
Done(op, f, c) ==
    IF op \in StepOps /\ c.written
    THEN [hist EXCEPT ![c.target] =
            IF c.existed
            THEN [n |-> @.n + 1,
                  orig |-> IF @.n = 0 THEN c.before ELSE @.orig,
                  pre |-> c.before,
                  created |-> FALSE]
            ELSE [@ EXCEPT !.created = TRUE]]
    ELSE hist

\* the call goes on to its next statement, or returns (or raises) with outcome
Leave(next, c, outcome) ==
    /\ pc' = next
    /\ cur' = c
    /\ last' = IF next = "return" THEN outcome ELSE last
    /\ hist' = IF next = "return" /\ outcome.outcome = "ok"
               THEN Done(c.op, fs', c) ELSE hist

\* the call is over: its locals are gone
Return ==
    /\ pc = "return"
    /\ pc' = "idle"
    /\ cur' = NoCall
    /\ args' = NoArgs
    /\ items' = << >>
    /\ idx' = 0
    /\ last' = NoOutcome
    /\ UNCHANGED <<fs, bk, nbk, users, homes, conf, hist, journal0, appended,
                   replayed>>

\* if exists(path): (lines 141, 190)
Begin(op) ==
    /\ pc = "idle"
    /\ exists(fs, Target(op)) => Len(appended) < MaxJournal /\ nbk < MaxBackups
    /\ LET c == Call(op, Target(op), fs) IN
          Leave(Flow(c, "begin"), c, Outcome(op, "ok", "", 0, 0, FALSE))
    /\ UNCHANGED <<fs, bk, nbk, users, homes, conf, args, items, idx,
                   journal0, appended, replayed>>

\* utils.backup_(path, name): copy the target to a fresh path under the
\* backup root and return that path
BackupCopy(b, n, entry) == [b EXCEPT ![BackupPath(n)] = entry]

Backup ==
    /\ pc = "backup"
    /\ nbk' = nbk + 1
    /\ bk' = BackupCopy(bk, nbk + 1, fs[cur.target])
    /\ args' = [type_ |-> "file", src |-> cur.target, backup |-> BackupPath(nbk + 1)]
    /\ LET c == [cur EXCEPT !.backup = BackupPath(nbk + 1), !.backedUp = TRUE] IN
          Leave(Flow(c, "backup"), c, Outcome(c.op, "ok", "", 0, 0, FALSE))
    /\ UNCHANGED <<fs, users, homes, conf, items, idx, journal0, appended, replayed>>

\* add_restore(type_, src, backup) (lines 494-503)
AddRestore ==
    /\ pc = "add_restore"
    /\ LET err == AddRestoreError(conf)
           warned == AddRestoreWarns(args.type_) IN
       IF err # ""
       THEN /\ LET c == [cur EXCEPT !.appendFailed = TRUE] IN
                  Leave(OnError(c), c, Outcome(c.op, "raised", err, 0, 0, FALSE))
            /\ UNCHANGED <<conf, appended, replayed>>
       ELSE /\ conf' = AddRestoreDoc(conf, args.type_, args.src, args.backup)
            /\ appended' = Append(appended, args)
            /\ replayed' = FALSE
            /\ LET c == [cur EXCEPT !.recorded = TRUE] IN
                  Leave(Flow(c, "add_restore"), c,
                        Outcome(c.op, "ok", "", 0, 0, warned))
    /\ UNCHANGED <<fs, bk, nbk, users, homes, args, items, idx, journal0>>

\* with open(path, "w") as f: cnf.write(f) (lines 145-149, 196-198)
Write ==
    /\ pc = "write"
    /\ fs' = [fs EXCEPT ![cur.target] = NewContent(cur.op)]
    /\ LET c == [cur EXCEPT !.written = TRUE] IN
          Leave(Flow(c, "write"), c, Outcome(c.op, "ok", "", 0, 0, FALSE))
    /\ UNCHANGED <<bk, nbk, users, homes, conf, args, items, idx, journal0,
                   appended, replayed>>

(***************************************************************************)
(* Provisioning steps without a backup.                                    *)
(***************************************************************************)
create_softhsm2_config ==
    /\ pc = "idle"
    /\ fs' = [fs EXCEPT ![SoftHsmConf] = File(SoftHsmText)]
    /\ LET c == [Call("create_softhsm2_config", SoftHsmConf, fs)
                   EXCEPT !.written = TRUE] IN
          Leave("return", c, Outcome(c.op, "ok", "", 0, 0, FALSE))
    /\ UNCHANGED <<bk, nbk, users, homes, conf, args, items, idx, journal0,
                   appended, replayed>>

\* cnf.set(f"certmap/shadowutils/{username}", "matchrule", ...) (lines 289-293)
MatchRule(d) ==
    CASE d = SssdDefault -> SssdMatchRule
      [] d = SiteSssd -> SiteSssdMatchRule
      [] OTHER -> d

\* setup_virt_card_(user) for a local user (lines 271-296)
setup_virt_card_ ==
    /\ pc = "idle"
    /\ users' = users \cup {Alice}
    /\ homes' = IF Alice \in users THEN homes ELSE homes \cup {Alice}
    /\ IF fs[SssdConf].kind = "file"
       THEN /\ fs' = [fs EXCEPT ![SssdConf] = File(MatchRule(@.data))]
            /\ LET c == [Call("setup_virt_card_", SssdConf, fs)
                           EXCEPT !.written = TRUE] IN
                  Leave("return", c, Outcome(c.op, "ok", "", 0, 0, FALSE))
       ELSE /\ fs' = fs
            /\ LET c == [Call("setup_virt_card_", Alice, fs)
                           EXCEPT !.written = Alice \notin users] IN
                  Leave("return", c,
                        Outcome(c.op, "raised", "FileNotFoundError", 0, 0, FALSE))
    /\ UNCHANGED <<bk, nbk, conf, args, items, idx, journal0, appended, replayed>>

(***************************************************************************)
(* add_restore called by itself, and cleanup_.                             *)
(***************************************************************************)
RestoreInputs ==
    { [type_ |-> "user", src |-> Alice, backup |-> None],
      [type_ |-> "file", src |-> SoftHsmConf, backup |-> None],
      [type_ |-> "dir", src |-> TokensDir, backup |-> None],
      [type_ |-> "dir", src |-> TokensDir, backup |-> DirBackup],
      [type_ |-> "disk", src |-> "/dev/sda", backup |-> None] }

add_restore(inp) ==
    /\ pc = "idle"
    /\ Len(appended) < MaxJournal
    /\ args' = inp
    /\ LET c == Call("add_restore", inp.src, fs) IN
          Leave("add_restore", c, Outcome(c.op, "ok", "", 0, 0, FALSE))
    /\ UNCHANGED <<fs, bk, nbk, users, homes, conf, items, idx, journal0,
                   appended, replayed>>

\* cleanup_(restore_items) is handed the restore list of the document
cleanup_begin ==
    /\ pc = "idle"
    /\ conf.state = "ok"
    /\ items' = conf.restore
    /\ idx' = 1
    /\ LET c == [Call("cleanup_", "", fs) EXCEPT !.replay = replayed] IN
          Leave(IF Len(conf.restore) = 0 THEN "return" ELSE "cleanup", c,
                Outcome(c.op, "ok", "", 0, 0, FALSE))
    /\ replayed' = (replayed \/ Len(conf.restore) = 0)
    /\ UNCHANGED <<fs, bk, nbk, users, homes, conf, args, journal0, appended>>

\* one turn of the loop of cleanup_ (lines 507-531)
cleanup_item ==
    /\ pc = "cleanup"
    /\ LET item == items[idx]
           err == ItemError(item, fs, bk, users)
           warned == last.warned \/ ItemWarns(item) IN
       /\ fs' = ItemFs(item, fs, bk, users)
       /\ bk' = ItemBk(item, fs, bk, users)
       /\ users' = ItemUsers(item, fs, bk, users)
       /\ homes' = homes \ (users \ users')
       /\ IF err # ""
          THEN /\ idx' = idx
               /\ pc' = "return"
               /\ last' = Outcome("cleanup_", "raised", err, idx, Len(items), warned)
          ELSE /\ idx' = idx + 1
               /\ pc' = IF idx = Len(items) THEN "return" ELSE "cleanup"
               /\ last' = Outcome("cleanup_", "ok", "", idx, Len(items), warned)
    /\ replayed' = (replayed \/ pc' = "return")
    /\ UNCHANGED <<nbk, conf, cur, args, items, hist, journal0, appended>>

Next ==
    \/ \E op \in StepOps : Begin(op)
    \/ Backup
    \/ AddRestore
    \/ Write
    \/ create_softhsm2_config
    \/ setup_virt_card_
    \/ \E inp \in RestoreInputs : add_restore(inp)
    \/ cleanup_begin
    \/ cleanup_item
    \/ Return

Spec == Init /\ [][Next]_vars

(***************************************************************************)
(* Properties.                                                             *)
(***************************************************************************)
PassOver == pc = "return" /\ last.op = "cleanup_"

PassDone == PassOver /\ last.outcome = "ok"

HasRecord(journal, type_, src) ==
    \E i \in 1..Len(journal) : journal[i].type = type_ /\ journal[i].src = src

LastRecordOf(journal, src) ==
    LET at == {i \in 1..Len(journal) : journal[i].src = src} IN
    journal[CHOOSE i \in at : \A j \in at : j <= i]

\* C1: round trip.  When a cleanup_ pass over the journal has reversed every
\* item, a target that existed before the last step that backed it up,
\* recorded it and rewrote it holds again the content it had before that
\* step; and a directory whose last record names a backup tree equals that
\* tree.
C1_RoundTrip ==
    PassDone =>
        /\ \A t \in StepTargets :
              hist[t].n > 0 /\ ~hist[t].created => fs[t] = hist[t].pre
        /\ HasRecord(items, "dir", TokensDir)
           /\ Truthy(BackupOf(LastRecordOf(items, TokensDir)))
              => fs[TokensDir] = bk[BackupOf(LastRecordOf(items, TokensDir))]

C1_Witness ==
    /\ PassDone
    /\ hist[SssdConf].n > 0
    /\ hist[SssdConf].pre = File(SiteSssd)
    /\ fs[SssdConf] = File(SiteSssd)
    /\ HasRecord(items, "file", SssdConf)

\* C2: when a cleanup_ pass has reversed every item, a target that did not
\* exist before a step created it does not exist.
C2_CreatedIsRemoved ==
    PassDone => \A t \in StepTargets : hist[t].created => ~exists(fs, t)

C4_EveryRecordAttempted ==
    PassOver => last.attempted = last.total

ProvisioningOps ==
    StepOps \cup {"create_softhsm2_config", "setup_virt_card_"}

\* C5: whenever a provisioning step has changed a host resource, the journal
\* holds a record for that resource.
C5_RecordForEveryMutation ==
    cur.op \in ProvisioningOps /\ cur.written =>
        \E i \in 1..Len(conf.restore) : conf.restore[i].src = cur.target

\* C6: the restore list is the list the session started with followed by
\* the items of the successful add_restore calls, in call order.
C6_AppendOnly ==
    /\ Len(conf.restore) = Len(journal0) + Len(appended)
    /\ \A i \in 1..Len(conf.restore) :
          IF i <= Len(journal0)
          THEN conf.restore[i] = journal0[i]
          ELSE LET a == appended[i - Len(journal0)] IN
               /\ conf.restore[i].type = a.type_
               /\ conf.restore[i].src = a.src
               /\ conf.restore[i].backup_dir = a.backup

C6_Witness ==
    /\ Len(journal0) = 1
    /\ Len(appended) = 2
    /\ appended[1] # appended[2]
    /\ Len(conf.restore) = 3

\* C7: after a cleanup_ pass over a journal that holds a user item stored by
\* add_restore, the account and its home directory do not exist.
C7_UserReversed ==
    PassOver /\ HasRecord(items, "user", Alice) =>
        Alice \notin users /\ Alice \notin homes

\* C8: a second cleanup_ pass over the same journal raises no error for an
\* item whose target is already absent.
C8_SecondPassQuiet ==
    PassOver /\ cur.replay => last.err # "FileNotFoundError: target"

\* C9: when a cleanup_ pass has reversed every item, a target that was
\* backed up, recorded and rewritten more than once is back in the state it
\* had before the first of these mutations.
C9_BackToOriginal ==
    PassDone =>
        \A t \in StepTargets : hist[t].n >= 2 => fs[t] = hist[t].orig

\* C10: when add_restore raises in a step, the step ends with that error and
\* the target is as it was before the step.
C10_AbortBeforeWrite ==
    cur.op \in StepOps /\ cur.appendFailed =>
        /\ pc = "return"
        /\ last.outcome = "raised" /\ last.err # ""
        /\ ~cur.written
        /\ fs[cur.target] = cur.before

C10_Witness ==
    /\ cur.op \in StepOps
    /\ cur.appendFailed /\ cur.backedUp
    /\ pc = "return"
    /\ last.err = AddRestoreError(conf)
    /\ exists(fs, cur.target)

UnknownType(t) == t # NoKey /\ t \notin KnownTypes

\* C11: add_restore appends an item of an unknown type as the last item of
\* the restore list and warns; cleanup_, at such an item, raises nothing,
\* warns, changes no file, account, home directory or backup, and goes on
\* to the next item (or ends the pass normally when it was the last one).
C11_UnknownKindKept ==
    [][ /\ (pc = "add_restore" /\ UnknownType(args.type_)
            /\ AddRestoreError(conf) = "") =>
              /\ Len(conf'.restore) = Len(conf.restore) + 1
              /\ SubSeq(conf'.restore, 1, Len(conf.restore)) = conf.restore
              /\ conf'.restore[Len(conf'.restore)].type = args.type_
              /\ conf'.restore[Len(conf'.restore)].src = args.src
              /\ pc' = "return" /\ last'.outcome = "ok" /\ last'.warned
        /\ (pc = "cleanup" /\ UnknownType(items[idx].type)) =>
              /\ fs' = fs /\ users' = users /\ homes' = homes /\ bk' = bk
              /\ last'.outcome = "ok" /\ last'.warned
              /\ idx' = idx + 1
              /\ pc' = IF idx < Len(items) THEN "cleanup" ELSE "return"
      ]_vars

C11_Witness ==
    /\ PassDone
    /\ last.warned
    /\ Len(items) >= 2
    /\ UnknownType(items[1].type)
    /\ items[1] = conf.restore[1]
    /\ last.attempted = Len(items)

KeySet(doc) == {doc.keys[i] : i \in 1..Len(doc.keys)}

\* C12: a step of add_restore leaves the document with the same top-level
\* keys and the same value of every setting other than the restore list
\* (yaml.dump may write the keys in another order); a call that raises
\* leaves the whole document as it was.
C12_OtherFieldsKept ==
    [][ pc = "add_restore" =>
          /\ conf'.state = conf.state
          /\ KeySet(conf') = KeySet(conf)
          /\ conf'.ca_dir = conf.ca_dir
          /\ AddRestoreError(conf) # "" => conf' = conf
      ]_vars

C12_Witness ==
    /\ pc = "return" /\ cur.op = "add_restore" /\ cur.recorded
    /\ conf.keys = <<"ca_dir", "restore">>
    /\ conf.ca_dir = "/etc/SCAutolib/ca"
    /\ Len(conf.restore) = Len(journal0) + 1

AtDirItem == pc = "cleanup" /\ items[idx].type = "dir"

\* C13: when cleanup_ reverses a dir item, whatever tree the target holds
\* or whether it is missing, it raises nothing and afterwards the target
\* does not exist (item without backup) or equals the backup tree (item
\* with backup).
C13_DirReversal ==
    [][ AtDirItem =>
          LET item == items[idx] IN
          /\ last'.outcome = "ok"
          /\ idx' = idx + 1
          /\ IF Truthy(BackupOf(item))
             THEN fs'[item.src] = bk[BackupOf(item)]
             ELSE fs'[item.src] = Absent
          /\ \A p \in Paths \ {item.src} : fs'[p] = fs[p]
      ]_vars

\* a dir item with backup was reversed on a target that was missing or held
\* another tree, in the first pass over a journal of this one item
C13_Witness ==
    /\ PassDone /\ ~cur.replay
    /\ journal0 = << >> /\ Len(appended) = 1
    /\ Len(items) = 1 /\ items[1].type = "dir"
    /\ Truthy(BackupOf(items[1]))
    /\ fs[TokensDir] = Dir(SavedTokenTree)

\* C14: no step of cleanup_, from the call to the return or the exception
\* that ends the pass, changes the configuration document or a backup
\* artifact, and a pass starts from the restore list as stored, so a later
\* pass iterates the same items.
C14_CleanupReadsOnly ==
    [][ /\ (pc = "idle" /\ cur'.op = "cleanup_") =>
              items' = conf.restore /\ conf' = conf /\ bk' = bk
        /\ pc = "cleanup" =>
              items' = items /\ conf' = conf /\ bk' = bk
      ]_vars

\* a second pass over the same journal has ended, after the first one
\* restored sssd.conf from its backup: list and backup are still there
C14_Witness ==
    /\ PassOver /\ cur.replay
    /\ items = conf.restore
    /\ HasRecord(items, "file", SssdConf)
    /\ hist[SssdConf].n > 0
    /\ bk[BackupOf(LastRecordOf(items, SssdConf))] = hist[SssdConf].pre
    /\ fs[SssdConf] = hist[SssdConf].pre

====
